---------------------------- MODULE Spec2Model ----------------------------
(***************************************************************************)
(* rocm-smi exporter (src/main.py): the value normaliser (_is_na,          *)
(* _to_float), the schema reconciler (_first_key), the gauge publishing    *)
(* helpers and the poll loop of __main__, with the metrics listener that   *)
(* start_http_server runs beside it.                                       *)
(*                                                                         *)
(* Numbers are fixed point: a Python float x is the integer 100 * x, so    *)
(* 37.5 is 3750 and the factor 0.1 is 10.  Text is a sequence of one       *)
(* character strings, so that strip, upper and the number pattern are      *)
(* computed and not assumed.                                               *)
(***************************************************************************)
EXTENDS Integers, Sequences, FiniteSets, TLC

\* ------------------------------------------------------------------ values

\* One unit (1.0) in fixed point.
One == 100

\* Python's None as the result of an optional computation; Some(x) otherwise.
None == <<>>
Some(x) == <<x>>

\* Raw JSON values of a record field: null, a number, a text, and an integer
\* beyond the range of a float (json.loads gives Python ints of any size).
Null == [t |-> "null", n |-> 0, s |-> <<>>]
Num(x) == [t |-> "num", n |-> x, s |-> <<>>]
Str(cs) == [t |-> "str", n |-> 0, s |-> cs]
BigInt == [t |-> "bigint", n |-> 0, s |-> <<>>]

Digits == <<"0", "1", "2", "3", "4", "5", "6", "7", "8", "9">>
IsDigit(c) == \E i \in 1..Len(Digits) : Digits[i] = c
DigitVal(c) == (CHOOSE i \in 1..Len(Digits) : Digits[i] = c) - 1
IsSign(c) == c \in {"+", "-"}
IsSpace(c) == c \in {" ", "\t", "\n"}

Lower == <<"a", "b", "c", "d", "e", "f", "g", "h", "i", "j", "k", "l", "m",
           "n", "o", "p", "q", "r", "s", "t", "u", "v", "w", "x", "y", "z">>
UpperOf == <<"A", "B", "C", "D", "E", "F", "G", "H", "I", "J", "K", "L", "M",
             "N", "O", "P", "Q", "R", "S", "T", "U", "V", "W", "X", "Y", "Z">>
\* str.upper() on one character.
UpperChar(c) ==
    IF \E i \in 1..Len(Lower) : Lower[i] = c
    THEN UpperOf[CHOOSE i \in 1..Len(Lower) : Lower[i] = c]
    ELSE c
Upper(cs) == [i \in 1..Len(cs) |-> UpperChar(cs[i])]

\* str.strip(): leading and trailing white space removed.
Strip(cs) ==
    LET idx == {i \in 1..Len(cs) : ~IsSpace(cs[i])}
    IN  IF idx = {} THEN <<>>
        ELSE LET lo == CHOOSE i \in idx : \A j \in idx : i <= j
                 hi == CHOOSE i \in idx : \A j \in idx : j <= i
             IN  SubSeq(cs, lo, hi)

\* _is_na (src/main.py 164-169).
_is_na(v) ==
    IF v.t = "null" THEN TRUE
    ELSE IF v.t \in {"num", "bigint"} THEN FALSE
    ELSE Upper(Strip(v.s)) = <<"N", "/", "A">>

\* The end of the maximal run of digits of cs that starts at position i
\* (i - 1 when cs[i] is no digit).
DigitRunEnd(cs, i) ==
    LET stop == {j \in i..Len(cs) : ~IsDigit(cs[j])}
    IN  IF stop = {} THEN Len(cs)
        ELSE (CHOOSE j \in stop : \A k \in stop : j <= k) - 1

RECURSIVE DigitsValue(_, _, _)
\* The decimal value of the digits cs[lo..hi].
DigitsValue(cs, lo, hi) ==
    IF hi < lo THEN 0
    ELSE 10 * DigitsValue(cs, lo, hi - 1) + DigitVal(cs[hi])

\* _rx_number.search (src/main.py 161, 179): the leftmost match of
\* [-+]?\d+(?:\.\d+)? in cs, as None or Some of its value in fixed point.
\* Fraction digits beyond the second are below the fixed point's resolution.
RxNumberSearch(cs) ==
    LET starts == {i \in 1..Len(cs) :
                     \/ IsDigit(cs[i])
                     \/ (IsSign(cs[i]) /\ i < Len(cs) /\ IsDigit(cs[i + 1]))}
    IN  IF starts = {} THEN None
        ELSE
          LET i0 == CHOOSE i \in starts : \A j \in starts : i <= j
              neg == cs[i0] = "-"
              d0 == IF IsSign(cs[i0]) THEN i0 + 1 ELSE i0
              d1 == DigitRunEnd(cs, d0)
              hasFrac == d1 + 2 <= Len(cs) /\ cs[d1 + 1] = "." /\ IsDigit(cs[d1 + 2])
              f1 == IF hasFrac THEN DigitRunEnd(cs, d1 + 2) ELSE d1
              whole == DigitsValue(cs, d0, d1)
              tenths == IF hasFrac THEN DigitVal(cs[d1 + 2]) ELSE 0
              hundredths == IF hasFrac /\ f1 >= d1 + 3 THEN DigitVal(cs[d1 + 3]) ELSE 0
              mag == whole * One + 10 * tenths + hundredths
          IN  Some(IF neg THEN 0 - mag ELSE mag)

\* Float product in fixed point.
Mul(a, b) == (a * b) \div One

\* float(v) at src/main.py 177 raises OverflowError for an int beyond the float
\* range; nothing in _to_float or around its calls catches it.
ToFloatRaises(v) == v.t = "bigint"

\* A normaliser that reports 0.0, not "no value", when there is no number
\* to extract.
_to_float_zero(v, scale) ==
    IF _is_na(v) THEN Some(0)
    ELSE IF v.t = "num" THEN Some(Mul(v.n, scale))
    ELSE LET r == RxNumberSearch(v.s)
         IN  IF r = None THEN Some(0) ELSE Some(Mul(r[1], scale))

\* _to_float (src/main.py 172-182), for the values it returns on.
_to_float(v, scale) ==
    IF _is_na(v) THEN None
    ELSE IF v.t = "num" THEN Some(Mul(v.n, scale))
    ELSE LET r == RxNumberSearch(v.s)
         IN  IF r = None THEN None ELSE Some(Mul(r[1], scale))

\* dict.get(k) with k the result of _first_key: None when the key is None or
\* not in the record.
Get(d, k) == IF k # None /\ k[1] \in DOMAIN d THEN d[k[1]] ELSE Null

RECURSIVE FirstKeyFrom(_, _, _)
FirstKeyFrom(d, keys, i) ==
    IF i > Len(keys) THEN None
    ELSE IF keys[i] \in DOMAIN d THEN Some(keys[i])
    ELSE FirstKeyFrom(d, keys, i + 1)

RECURSIVE LastKeyFrom(_, _, _)
LastKeyFrom(d, keys, i) ==
    IF i < 1 THEN None
    ELSE IF keys[i] \in DOMAIN d THEN Some(keys[i])
    ELSE LastKeyFrom(d, keys, i - 1)

\* A reconciler that scans the candidates from the end of the list.
_first_key_reversed(d, keys) == LastKeyFrom(d, keys, Len(keys))

RECURSIVE UsableKeyFrom(_, _, _)
UsableKeyFrom(d, keys, i) ==
    IF i > Len(keys) THEN None
    ELSE IF keys[i] \in DOMAIN d /\ ~_is_na(d[keys[i]]) THEN Some(keys[i])
    ELSE UsableKeyFrom(d, keys, i + 1)

\* A reconciler that passes over a candidate whose value is None or N/A.
_first_key_usable(d, keys) == UsableKeyFrom(d, keys, 1)

\* _first_key (src/main.py 185-190).
_first_key(d, keys) == FirstKeyFrom(d, keys, 1)

\* ------------------------------------------------------------ the registry

\* Text values used as raw field values.
TxtNA == <<" ", "n", "/", "a", " ">>
TxtNoNumber == <<"a", "b", "c">>
TxtPercent == <<"3", "7", ".", "5", "%">>

\* The per-device metrics in the order __main__ publishes them
\* (src/main.py 267-430): the gauge, the candidate field names in the order
\* _first_key tries them, the extra label value (rail or clock; "" when the
\* gauge has none), whether the value goes through _set_if_not_none, and the
\* factor applied to the normalised value where the gauge is set.
Entry(g, ks, x, guarded, mul) ==
    [gauge |-> g, keys |-> ks, sub |-> x, guarded |-> guarded, mul |-> mul]

Metrics == <<
  Entry("gpuEdgeTemperature",
        <<"Temperature (Sensor edge) (C)", "temperature_edge (C)">>, "", TRUE, One),
  Entry("gpuJunctionTemperature",
        <<"Temperature (Sensor junction) (C)", "temperature_hotspot (C)">>, "", TRUE, One),
  Entry("gpuMemTemperature",
        <<"Temperature (Sensor memory) (C)", "temperature_mem (C)">>, "", TRUE, One),
  Entry("gpuUsage", <<"GPU use (%)", "average_gfx_activity (%)">>, "", TRUE, One),
  Entry("gpuVRAMUsage", <<"GPU Memory Allocated (VRAM%)">>, "", TRUE, One),
  Entry("umcActivity", <<"average_umc_activity (%)">>, "", TRUE, One),
  Entry("mmActivity", <<"average_mm_activity (%)">>, "", TRUE, One),
  Entry("socketPowerNow",
        <<"Current Socket Graphics Package Power (W)", "current_socket_power (W)">>,
        "", TRUE, One),
  Entry("socketPowerAvg", <<"average_socket_power (W)">>, "", TRUE, One),
  Entry("pkgPowerAvg", <<"Average Graphics Package Power (W)">>, "", TRUE, One),
  Entry("pkgPowerMax", <<"Max Graphics Package Power (W)">>, "", TRUE, One),
  Entry("voltageMilliV", <<"voltage_soc (mV)">>, "soc", FALSE, One),
  Entry("voltageMilliV", <<"voltage_gfx (mV)">>, "gfx", FALSE, One),
  Entry("voltageMilliV", <<"voltage_mem (mV)">>, "mem", FALSE, One),
  Entry("voltageMilliV", <<"Voltage (mV)">>, "vcore", FALSE, One),
  Entry("fanRpm", <<"current_fan_speed (rpm)">>, "", TRUE, One),
  Entry("clkCurrentMHz", <<"current_gfxclk (MHz)">>, "gfxclk", FALSE, One),
  Entry("clkCurrentMHz", <<"current_socclk (MHz)">>, "socclk", FALSE, One),
  Entry("clkCurrentMHz", <<"current_uclk (MHz)">>, "uclk", FALSE, One),
  Entry("clkCurrentMHz", <<"current_vclk0 (MHz)">>, "vclk0", FALSE, One),
  Entry("clkCurrentMHz", <<"current_dclk0 (MHz)">>, "dclk0", FALSE, One),
  Entry("clkAverageMHz", <<"average_gfxclk_frequency (MHz)">>, "gfxclk", FALSE, One),
  Entry("clkAverageMHz", <<"average_socclk_frequency (MHz)">>, "socclk", FALSE, One),
  Entry("clkAverageMHz", <<"average_uclk_frequency (MHz)">>, "uclk", FALSE, One),
  Entry("clkAverageMHz", <<"average_vclk0_frequency (MHz)">>, "vclk0", FALSE, One),
  Entry("clkAverageMHz", <<"average_dclk0_frequency (MHz)">>, "dclk0", FALSE, One),
  Entry("pcieWidthLanes", <<"pcie_link_width (Lanes)">>, "", FALSE, One),
  Entry("pcieSpeedGTs", <<"pcie_link_speed (0.1 GT/s)">>, "", FALSE, 10),
  Entry("energyAccumulatorUJ",
        <<"energy_accumulator (15.259uJ (2^-16))", "Energy counter">>, "", TRUE, One),
  Entry("accumulatedEnergyUJ", <<"Accumulated Energy (uJ)">>, "", TRUE, One)
>>

NMetrics == Len(Metrics)

\* The raw values a reported field may carry.
RawValues == {Null, Str(TxtNA), Str(TxtNoNumber), Str(TxtPercent), Num(160 * One),
              BigInt}

\* The largest number of device keys in one snapshot.
MaxDevices == 2

\* The fields of a device record that do not change from cycle to cycle
\* (identity and static info), as the text str() gives for each.
NoFields == [k \in {} |-> ""]
FullStatic ==
    [k \in {"Device Name", "Device ID", "Subsystem ID", "VBIOS version",
            "GFX version", "Card Series", "Card Vendor"} |->
        CASE k = "Device Name" -> "X"
          [] k = "Device ID" -> "0x744c"
          [] k = "Subsystem ID" -> "0x0e3b"
          [] k = "VBIOS version" -> "113-D7020100"
          [] k = "GFX version" -> "gfx1100"
          [] k = "Card Series" -> "Navi 31"
          [] k = "Card Vendor" -> "AMD"]
StaticRecords == {NoFields, FullStatic}

\* dict.get(k, default).
GetDefault(d, k, default) == IF k \in DOMAIN d THEN d[k] ELSE default

\* labels (src/main.py 248-252): the Device Identity of record d.
Labels(d) ==
    << GetDefault(d, "Device Name", "unknown"),
       GetDefault(d, "Device ID", "unknown"),
       GetDefault(d, "Subsystem ID", "unknown") >>

\* A sample's place in the registry: the gauge and its label values.
Key(g, l) == [g |-> g, l |-> l]

\* The label values of the deviceInfo sample of record d (src/main.py 255-263);
\* `a or b` takes b when a is the empty text.
DeviceInfoKey(d) ==
    LET gfx1 == GetDefault(d, "GFX Version", "")
        gfx == IF gfx1 # "" THEN gfx1 ELSE GetDefault(d, "GFX version", "")
    IN  Key("deviceInfo",
            Labels(d) \o << GetDefault(d, "VBIOS version", ""), gfx,
                            GetDefault(d, "Card Series", ""),
                            GetDefault(d, "Card Vendor", "") >>)

\* The sample of metric i for record d: **labels, plus rail= or clock=.
MetricKey(i, d) ==
    Key(Metrics[i].gauge,
        IF Metrics[i].sub = "" THEN Labels(d) ELSE Labels(d) \o <<Metrics[i].sub>>)

\* gauge.labels(...): the label combination is created, valued 0, when it is new.
Child(reg, k) == IF k \in DOMAIN reg THEN reg ELSE (k :> 0) @@ reg
\* .set(v) on the child.
SetValue(reg, k, v) == (k :> v) @@ reg

\* All records over a subset of the field names ks, with values in RawValues.
Slices(ks) == UNION {[S -> RawValues] : S \in SUBSET ks}
KeySet(i) == {Metrics[i].keys[j] : j \in 1..Len(Metrics[i].keys)}
StaticPart(d) == [k \in DOMAIN d \ UNION {KeySet(i) : i \in 1..NMetrics} |-> d[k]]

VARIABLES
    pc,           \* where the main thread is
    listening,    \* start_http_server has run
    rsmi_ver,     \* _get_versions()[0]
    rlib_ver,     \* _get_versions()[1]
    driver_version,
    registry,     \* the samples: Key -> value, for the label sets created
    reported,     \* the metrics whose fields this host's rocm-smi reports
    card,         \* how many device keys of the snapshot the loop has taken
    m,            \* the fields of the current device record in use
    idx,          \* the metric of Metrics the loop is at
    val,          \* the result of _to_float for metric idx
    data,         \* the snapshot the loop holds: "unset", "current" or "stale"
    writer,       \* Key -> the device that set it in the cycle in progress
    written,      \* Key -> the value of the last completed set on it
    fault         \* why the process ended, "" while it runs

vars == <<pc, listening, rsmi_ver, rlib_ver, driver_version, registry, reported,
          card, m, idx, val, data, writer, written, fault>>

NoWriter == [k \in {} |-> 0]

\* Each host reports the fields of one logical metric beside the static ones.
ReportedSets == {{i} : i \in 1..NMetrics}

Init ==
    /\ pc = "start"
    /\ listening = FALSE
    /\ rsmi_ver = ""
    /\ rlib_ver = ""
    /\ driver_version = ""
    /\ registry = [k \in {} |-> 0]
    /\ reported \in ReportedSets
    /\ card = 0
    /\ m = NoFields
    /\ idx = 1
    /\ val = None
    /\ data = "unset"
    /\ writer = NoWriter
    /\ written = [k \in {} |-> 0]
    /\ fault = ""

\* An uncaught exception: the traceback is printed and the process ends, and
\* with it the listener thread, the registry and every variable of __main__.
\* writer stays as the record of what the last cycle had published.
Crash(why) ==
    /\ pc' = "crashed"
    /\ fault' = why
    /\ listening' = FALSE
    /\ rsmi_ver' = ""
    /\ rlib_ver' = ""
    /\ driver_version' = ""
    /\ registry' = [k \in {} |-> 0]
    /\ card' = 0
    /\ m' = NoFields
    /\ idx' = 1
    /\ val' = None
    /\ data' = "unset"
    /\ written' = [k \in {} |-> 0]
    /\ UNCHANGED reported

\* start_http_server(PORT_L) (src/main.py 226).
StartHttpServer ==
    /\ pc = "start"
    /\ listening' = TRUE
    /\ pc' = "versions"
    /\ UNCHANGED <<rsmi_ver, rlib_ver, driver_version, registry, reported, card, m,
                   idx, val, writer, data, written, fault>>

\* What `rocm-smi -V` can do: print text with both version lines (rsmi and
\* rlib are what the two patterns capture, stripped) or with neither, exit
\* non-zero (CalledProcessError), or not start at all (OSError from
\* check_output, e.g. FileNotFoundError).
VersionRuns ==
    { [kind |-> "text", rsmi |-> "2.3.1", rlib |-> "7.4.0"],
      [kind |-> "text", rsmi |-> "", rlib |-> ""],
      [kind |-> "exit", rsmi |-> "2.3.1", rlib |-> "7.4.0"],
      [kind |-> "oserror", rsmi |-> "", rlib |-> ""] }

\* _get_versions (src/main.py 202-215) as called at line 229: the text is
\* searched for the two version lines; CalledProcessError is caught and
\* leaves both strings empty; any other exception goes up.
GetVersions ==
    /\ pc = "versions"
    /\ \E r \in VersionRuns :
         CASE r.kind = "text" ->
                /\ rsmi_ver' = r.rsmi
                /\ rlib_ver' = r.rlib
                /\ pc' = "poll"
                /\ UNCHANGED <<listening, driver_version, registry, reported, card,
                               m, idx, val, writer, data, written, fault>>
           [] r.kind = "exit" ->
                /\ rsmi_ver' = ""
                /\ rlib_ver' = ""
                /\ pc' = "poll"
                /\ UNCHANGED <<listening, driver_version, registry, reported, card,
                               m, idx, val, writer, data, written, fault>>
           [] r.kind = "oserror" ->
                /\ Crash("versions: OSError")
                /\ UNCHANGED writer

\* The top of `while True`: getGPUMetrics calls check_output and blocks.
Invoke ==
    /\ pc = "poll"
    /\ pc' = "invoking"
    /\ UNCHANGED <<listening, rsmi_ver, rlib_ver, driver_version, registry, reported,
                   card, m, idx, val, writer, data, written, fault>>

\* getGPUMetrics (src/main.py 218-221, 233): the tool's output parses to a JSON
\* object, or check_output raises, or json.loads raises, or the JSON is no
\* object (data.items() then raises).  Nothing catches these.
ToolResults == {"object", "check_output raised", "not json", "not an object"}
getGPUMetrics ==
    /\ pc = "invoking"
    /\ \E r \in ToolResults :
         IF r = "object"
         THEN /\ pc' = "system"
              /\ card' = 0
              /\ writer' = NoWriter
              /\ data' = "current"
              /\ UNCHANGED <<listening, rsmi_ver, rlib_ver, driver_version, registry,
                             reported, m, idx, val, written, fault>>
         ELSE /\ Crash("snapshot: " \o r)
              /\ writer' = NoWriter

SoftwareInfoKey(dv) == Key("softwareInfo", <<dv, rsmi_ver, rlib_ver>>)

\* The "system" block (src/main.py 236-242): data has no "system" key, or its
\* value is a mapping without or with "Driver version", or no container at all
\* (`in` raises TypeError).  softwareInfo.labels(...) creates the label set or
\* raises; it is outside any try.
SystemValues == {"absent", "no driver", "driver", "number"}
System ==
    /\ pc = "system"
    /\ \E sys \in SystemValues :
         CASE sys \in {"absent", "no driver"} ->
                /\ pc' = "loop"
                /\ UNCHANGED <<listening, rsmi_ver, rlib_ver, driver_version, registry,
                               reported, card, m, idx, val, writer, data, written, fault>>
           [] sys = "driver" ->
                \/ /\ driver_version' = "6.10.5"
                   /\ registry' = Child(registry, SoftwareInfoKey("6.10.5"))
                   /\ pc' = "sw_set"
                   /\ UNCHANGED <<listening, rsmi_ver, rlib_ver, reported, card, m,
                                  idx, val, writer, data, written, fault>>
                \/ /\ Crash("publish: softwareInfo")
                   /\ UNCHANGED writer
           [] sys = "number" ->
                /\ Crash("snapshot: system is no mapping")
                /\ UNCHANGED writer

\* softwareInfo...set(1) (src/main.py 242).
SoftwareInfoSet ==
    /\ pc = "sw_set"
    /\ registry' = SetValue(registry, SoftwareInfoKey(driver_version), One)
    /\ written' = SetValue(written, SoftwareInfoKey(driver_version), One)
    /\ pc' = "loop"
    /\ UNCHANGED <<listening, rsmi_ver, rlib_ver, driver_version, reported, card, m,
                   idx, val, data, writer, fault>>

\* `for card, m in data.items()` (src/main.py 244-252): the loop ends, or takes
\* the next device key, whose value is a record or no mapping at all (m.get
\* then raises AttributeError).  The "system" key is passed over.
NextDevice ==
    /\ pc = "loop"
    /\ \/ /\ pc' = "sleep"
          /\ UNCHANGED <<listening, rsmi_ver, rlib_ver, driver_version, registry,
                         reported, card, m, idx, val, writer, data, written, fault>>
       \/ /\ card < MaxDevices
          /\ \E d \in StaticRecords :
               /\ card' = card + 1
               /\ m' = d
               /\ idx' = 1
               /\ pc' = "info"
               /\ UNCHANGED <<listening, rsmi_ver, rlib_ver, driver_version, registry,
                              reported, val, writer, data, written, fault>>
       \/ /\ card < MaxDevices
          /\ Crash("snapshot: device is no mapping")
          /\ UNCHANGED writer

\* deviceInfo.labels(...) (src/main.py 255-264): outside any try.
DeviceInfoLabels ==
    /\ pc = "info"
    /\ \/ /\ registry' = Child(registry, DeviceInfoKey(m))
          /\ pc' = "info_set"
          /\ UNCHANGED <<listening, rsmi_ver, rlib_ver, driver_version, reported, card,
                         m, idx, val, writer, data, written, fault>>
       \/ /\ Crash("publish: deviceInfo")
          /\ UNCHANGED writer

\* deviceInfo...set(1) (src/main.py 264).
DeviceInfoSet ==
    /\ pc = "info_set"
    /\ registry' = SetValue(registry, DeviceInfoKey(m), One)
    /\ written' = SetValue(written, DeviceInfoKey(m), One)
    /\ writer' = (DeviceInfoKey(m) :> card) @@ writer
    /\ pc' = "norm"
    /\ UNCHANGED <<listening, rsmi_ver, rlib_ver, driver_version, reported, card, m,
                   idx, val, data, fault>>

\* The metrics from idx on that this host reports.
Ahead == {i \in reported : i >= idx}

\* The next metric this host reports: the record's fields for it are read and
\* normalised (_to_float(m.get(_first_key(m, keys))), src/main.py 267-430).
\* The metrics before it have none of their fields in the record: _first_key
\* and m.get give None, _to_float gives None and nothing is touched.  With no
\* reported metric left the device is done.
Normalize ==
    /\ pc = "norm"
    /\ IF Ahead = {}
       THEN /\ pc' = "loop"
            /\ m' = NoFields
            /\ UNCHANGED <<listening, rsmi_ver, rlib_ver, driver_version, registry,
                           reported, card, idx, val, writer, data, written, fault>>
       ELSE LET j == CHOOSE i \in Ahead : \A k \in Ahead : i <= k
            IN  \E slice \in Slices(KeySet(j)) :
                  LET d == slice @@ m
                      v == Get(d, _first_key(d, Metrics[j].keys))
                  IN  IF ToFloatRaises(v)
                      THEN /\ Crash("normalize: OverflowError")
                           /\ UNCHANGED writer
                      ELSE /\ m' = d
                           /\ idx' = j
                           /\ val' = _to_float(v, One)
                           /\ pc' = "pub"
                           /\ UNCHANGED <<listening, rsmi_ver, rlib_ver,
                                          driver_version, registry, reported, card,
                                          writer, data, written, fault>>

\* The statement for metric idx is over: on to the next one.
EndMetric ==
    /\ idx' = idx + 1
    /\ val' = None
    /\ m' = StaticPart(m)
    /\ pc' = "norm"

\* `if value is None: return` (src/main.py 194-195) and the `if v is not None`
\* of the unguarded gauges (370, 387, 399, 404, 407): nothing is published.
SkipNone ==
    /\ pc = "pub"
    /\ val = None
    /\ EndMetric
    /\ UNCHANGED <<listening, rsmi_ver, rlib_ver, driver_version, registry, reported,
                   card, writer, data, written, fault>>

\* gauge.labels(**labels) for metric idx: it creates the label set, or raises.
\* _set_if_not_none catches and logs (src/main.py 196-199); the voltage, clock
\* and PCIe gauges are set outside any try (371, 388, 400, 405, 408).
GaugeLabels ==
    /\ pc = "pub"
    /\ val # None
    /\ \/ /\ registry' = Child(registry, MetricKey(idx, m))
          /\ pc' = "set"
          /\ UNCHANGED <<listening, rsmi_ver, rlib_ver, driver_version, reported, card,
                         m, idx, val, writer, data, written, fault>>
       \/ /\ Metrics[idx].guarded
          /\ EndMetric
          /\ UNCHANGED <<listening, rsmi_ver, rlib_ver, driver_version, registry,
                         reported, card, writer, data, written, fault>>
       \/ /\ ~Metrics[idx].guarded
          /\ Crash("publish: " \o Metrics[idx].gauge)
          /\ UNCHANGED writer

\* The argument of .set for metric i and normalised value v: float(value) in
\* _set_if_not_none (src/main.py 197), v itself for the voltage, clock and
\* PCIe width gauges (371, 388, 400, 405), speed_01 * 0.1 for the PCIe speed
\* (408).
\* A publish step that sets every gauge to the normalised value as it is.
PublishedValueUnscaled(i, v) == v

PublishedValue(i, v) == Mul(v, Metrics[i].mul)

\* .set(value) for metric idx.
GaugeSet ==
    /\ pc = "set"
    /\ registry' = SetValue(registry, MetricKey(idx, m), PublishedValue(idx, val[1]))
    /\ written' = SetValue(written, MetricKey(idx, m), PublishedValue(idx, val[1]))
    /\ writer' = (MetricKey(idx, m) :> card) @@ writer
    /\ EndMetric
    /\ UNCHANGED <<listening, rsmi_ver, rlib_ver, driver_version, reported, card,
                   data, fault>>

\* A scrape: the listener thread that start_http_server started reads the
\* registry and answers with every sample in it, whatever the main thread is
\* doing; it changes nothing.
ScrapeResponse == registry
Scrape ==
    /\ listening
    /\ UNCHANGED vars

\* A loop that goes back to the Processor after the sleep without invoking
\* the tool.
SleepKeepSnapshot ==
    /\ pc = "sleep"
    /\ pc' = "system"
    /\ data' = "stale"
    /\ card' = 0
    /\ writer' = NoWriter
    /\ UNCHANGED <<listening, rsmi_ver, rlib_ver, driver_version, registry, reported,
                   m, idx, val, written, fault>>

\* logger.info and time.sleep(10), then the next cycle (src/main.py 432-433).
Sleep ==
    /\ pc = "sleep"
    /\ pc' = "poll"
    /\ data' = "stale"
    /\ writer' = NoWriter
    /\ UNCHANGED <<listening, rsmi_ver, rlib_ver, driver_version, registry, reported,
                   card, m, idx, val, written, fault>>

\* The main thread: the statements of __main__ in program order.
MainThread ==
    \/ StartHttpServer
    \/ GetVersions
    \/ Invoke
    \/ getGPUMetrics
    \/ System
    \/ SoftwareInfoSet
    \/ NextDevice
    \/ DeviceInfoLabels
    \/ DeviceInfoSet
    \/ Normalize
    \/ SkipNone
    \/ GaugeLabels
    \/ GaugeSet
    \/ Sleep

Next == MainThread \/ Scrape

Spec == Init /\ [][Next]_vars

\* The hosts of the liveness check: one aliased gauge set through
\* _set_if_not_none, one voltage rail and the PCIe speed.
LiveReportedSets == {{4}, {13}, {28}}
LiveInit == Init /\ reported \in LiveReportedSets

\* The interpreter runs the main thread whenever it can take a step, and a
\* tool invocation that returns lets getGPUMetrics go on.
LiveSpec == LiveInit /\ [][Next]_vars /\ WF_vars(MainThread)

\* ------------------------------------------------------------------ claims

\* The candidates of metric i that are keys of record d, by position.
Present(i, d) == {j \in 1..Len(Metrics[i].keys) : Metrics[i].keys[j] \in DOMAIN d}
MinOf(S) == CHOOSE j \in S : \A k \in S : j <= k

\* The source value of metric i in record d: what the first present candidate
\* holds, Null when no candidate is a key of d.
SourceValue(i, d) ==
    IF Present(i, d) = {} THEN Null ELSE d[Metrics[i].keys[MinOf(Present(i, d))]]

\* Absent, the sentinel N/A in any case with white space around it, or text
\* without a number.
AbsentLike(v) ==
    \/ v.t = "null"
    \/ /\ v.t = "str"
       /\ \/ Upper(Strip(v.s)) = <<"N", "/", "A">>
          \/ \A i \in 1..Len(v.s) : ~IsDigit(v.s[i])

AtMetric == pc \in {"pub", "set"}

SnapshotFaults ==
    {"snapshot: " \o r : r \in ToolResults \ {"object"}}
      \cup {"snapshot: system is no mapping", "snapshot: device is no mapping"}

\* C2: a cycle that a malformed snapshot aborts has published no per-device
\* sample, wherever the malformed part is among the device records.
C2_MalformedSnapshotPublishesNothing ==
    fault \in SnapshotFaults => writer = NoWriter

\* C3: within a cycle a sample set for one device key is never set again for
\* another device key.
C3_DevicesKeptApart ==
    [][\A k \in DOMAIN writer \cap DOMAIN writer' : writer'[k] = writer[k]]_vars

\* C4: the value a metric's statement uses is the normalised value of the
\* first candidate, in list order, that is a key of the record, whatever later
\* candidates hold; with no candidate in the record the result is "no value"
\* and the statement never reaches the gauge.
C4_FirstPresentCandidateWins ==
    AtMetric =>
      IF Present(idx, m) = {}
      THEN val = None /\ pc = "pub"
      ELSE val = _to_float(m[Metrics[idx].keys[MinOf(Present(idx, m))]], One)

\* C4 witness: both aliases are in the record with different numbers and the
\* first one's is used.
C4_Witness ==
    /\ pc = "set"
    /\ Len(Metrics[idx].keys) = 2
    /\ Present(idx, m) = {1, 2}
    /\ m[Metrics[idx].keys[1]] = Num(160 * One)
    /\ m[Metrics[idx].keys[2]] = Str(TxtPercent)
    /\ val = Some(160 * One)

PerDevicePublishFaults ==
    {"publish: deviceInfo"} \cup {"publish: " \o Metrics[i].gauge : i \in 1..NMetrics}

\* C5: a gauge-set operation of a per-device metric that fails never ends the
\* process.
C5_PublishFailureNeverFatal == fault \notin PerDevicePublishFaults

\* C6: a failure of the version query at startup never ends the process.
C6_VersionFailureNeverFatal == fault # "versions: OSError"

InCycle ==
    pc \in {"system", "sw_set", "loop", "info", "info_set", "norm", "pub", "set"}

C9_ScrapeReturnsWrittenValues == listening => ScrapeResponse = written

\* C10: when the first alias is in the record with an absent-like value the
\* later alias is not consulted and nothing reaches the gauge; the later alias
\* is used when the first is missing from the record.
C10_AliasShadowing ==
    AtMetric /\ Len(Metrics[idx].keys) = 2 =>
      LET k1 == Metrics[idx].keys[1]
          k2 == Metrics[idx].keys[2]
      IN  /\ k1 \in DOMAIN m /\ AbsentLike(m[k1]) => val = None /\ pc = "pub"
          /\ k1 \notin DOMAIN m /\ k2 \in DOMAIN m /\ m[k2].t = "num" =>
               val = Some(m[k2].n)

\* C10 witness: the first alias holds N/A, the second a number, and the
\* statement has no value.
C10_Witness ==
    /\ pc = "pub"
    /\ Len(Metrics[idx].keys) = 2
    /\ Present(idx, m) = {1, 2}
    /\ m[Metrics[idx].keys[1]] = Str(TxtNA)
    /\ m[Metrics[idx].keys[2]] = Num(160 * One)
    /\ val = None
=============================================================================
